---------------------------- MODULE Spec2Model ----------------------------
(***************************************************************************)
(* Model of Script.js: the Slack webhook handler doPost, the five regular  *)
(* expression extractors and generateSlackLink.                            *)
(*                                                                         *)
(* A JavaScript string is modelled as a sequence of one-character strings, *)
(* so that the regular expressions are matched character by character.     *)
(***************************************************************************)
EXTENDS Integers, Sequences, FiniteSets, TLC

VARIABLES
    sheet,      \* the active sheet: the sequence of rows appended so far
    history,    \* for each row of the sheet, the request whose appendRow wrote it
    exec,       \* the doPost executions waiting in appendRow, one per slot
    last,       \* the doPost execution that returned most recently
    input,      \* the argument given to the pure functions (extractor run)
    output,     \* what the pure functions returned for input
    phase       \* "input" before the pure functions ran, "done" after

vars == <<sheet, history, exec, last, input, output, phase>>

(***************************************************************************)
(* Characters and character classes of the regular expressions.            *)
(***************************************************************************)
UpperCase == <<"A","B","C","D","E","F","G","H","I","J","K","L","M",
               "N","O","P","Q","R","S","T","U","V","W","X","Y","Z">>
LowerCase == <<"a","b","c","d","e","f","g","h","i","j","k","l","m",
               "n","o","p","q","r","s","t","u","v","w","x","y","z">>
DigitChars == <<"0","1","2","3","4","5","6","7","8","9">>

Range(f) == {f[i] : i \in DOMAIN f}

UpperSet == Range(UpperCase)
LowerSet == Range(LowerCase)
DigitSet == Range(DigitChars)

\* the i flag: both sides of a comparison are case-folded
ToLower(c) ==
    IF c \in UpperSet
    THEN LowerCase[CHOOSE i \in DOMAIN UpperCase : UpperCase[i] = c]
    ELSE c

SpaceSet == {" ", "\n", "\t"}
WordSet == UpperSet \cup LowerSet \cup DigitSet \cup {"_"}

\* \s  (the white space the messages of the model contain)
IsSpace(c) == c \in SpaceSet
\* \d
IsDigit(c) == c \in DigitSet
\* \w
IsWord(c) == c \in WordSet

Min(S) == CHOOSE x \in S : \A y \in S : x <= y
Max(S) == CHOOSE x \in S : \A y \in S : x >= y

\* the literal lit (given in lower case) matches t at position i, under the i flag
MatchLit(t, i, lit) ==
    /\ i >= 1
    /\ i + Len(lit) - 1 <= Len(t)
    /\ \A j \in 1..Len(lit) : ToLower(t[i + j - 1]) = lit[j]

\* the length of the longest run of characters of a class that starts at i:
\* what a greedy \s+, \d+ or \w+ consumes at i
RECURSIVE SpaceRun(_, _)
SpaceRun(t, i) ==
    IF i >= 1 /\ i <= Len(t) /\ IsSpace(t[i]) THEN 1 + SpaceRun(t, i + 1) ELSE 0
RECURSIVE DigitRun(_, _)
DigitRun(t, i) ==
    IF i >= 1 /\ i <= Len(t) /\ IsDigit(t[i]) THEN 1 + DigitRun(t, i + 1) ELSE 0
RECURSIVE WordRun(_, _)
WordRun(t, i) ==
    IF i >= 1 /\ i <= Len(t) /\ IsWord(t[i]) THEN 1 + WordRun(t, i + 1) ELSE 0

\* String.prototype.trim
trim(s) ==
    LET keep == {i \in 1..Len(s) : ~IsSpace(s[i])}
    IN  IF keep = {} THEN <<>> ELSE SubSeq(s, Min(keep), Max(keep))

\* the sentinel "N/A"
NA == <<"N", "/", "A">>

\* the anchor literals of the regular expressions, case-folded
LitH2H   == <<"h", "2", "h">>
LitTo    == <<"t", "o">>
LitTotal == <<"t", "o", "t", "a", "l">>
LitFfb   == <<"f", "f", "b">>
LitNotes == <<"n", "o", "t", "e", "s">>

(***************************************************************************)
(* The extractors.  message.match(regex) returns the leftmost match of the *)
(* regex; each Match... operator gives the set of start positions at which *)
(* the regex matches, and the capture group of a match at a position.      *)
(***************************************************************************)

\* /H2H\s+(\w+)/i : a greedy \s+ followed by \w+ matches exactly when the
\* whole white-space run is followed by a word character
\* a variant that wants H2H and its word on one line: /H2H[ \t]+(\w+)/i
SourceBankStarts_SameLine(t) ==
    {i \in 1..Len(t) :
        /\ MatchLit(t, i, LitH2H)
        /\ SpaceRun(t, i + 3) >= 1
        /\ \A j \in (i + 3)..(i + 2 + SpaceRun(t, i + 3)) : t[j] # "\n"
        /\ WordRun(t, i + 3 + SpaceRun(t, i + 3)) >= 1}

SourceBankStarts(t) ==
    {i \in 1..Len(t) :
        /\ MatchLit(t, i, LitH2H)
        /\ SpaceRun(t, i + 3) >= 1
        /\ WordRun(t, i + 3 + SpaceRun(t, i + 3)) >= 1}

SourceBankGroup(t, i) ==
    LET g == i + 3 + SpaceRun(t, i + 3)
    IN  SubSeq(t, g, g + WordRun(t, g) - 1)

extractSourceBank(message) ==
    LET starts == SourceBankStarts(message)
        match1 == SourceBankGroup(message, Min(starts))
    IN  IF starts # {} /\ match1 # <<>> THEN match1 ELSE NA

\* /to\s+([\s\S]*?)\s+Total/i at start i: the first \s+ is greedy (it tries k
\* white-space characters, longest first), the group is lazy (it tries to end
\* at p, nearest first), and the group may end at p when p starts a
\* white-space run that is followed by Total
BeneficiaryTries(t, i) ==
    LET ends == {p \in (i + 3)..Len(t) :
                    /\ IsSpace(t[p])
                    /\ MatchLit(t, p + SpaceRun(t, p), LitTotal)}
    IN  {kp \in (1..SpaceRun(t, i + 2)) \X ends : kp[2] >= i + 2 + kp[1]}

BeneficiaryStarts(t) ==
    {i \in 1..Len(t) : MatchLit(t, i, LitTo) /\ BeneficiaryTries(t, i) # {}}

BeneficiaryGroup(t, i) ==
    LET tries == BeneficiaryTries(t, i)
        k == Max({kp[1] : kp \in tries})
        p == Min({kp[2] : kp \in {x \in tries : x[1] = k}})
    IN  SubSeq(t, i + 2 + k, p - 1)

extractBeneficiaryBank(message) ==
    LET starts == BeneficiaryStarts(message)
        match1 == BeneficiaryGroup(message, Min(starts))
    IN  IF starts # {} /\ match1 # <<>> THEN trim(match1) ELSE NA

\* /Total\s+(\d+)/i
TotalStarts(t) ==
    {i \in 1..Len(t) :
        /\ MatchLit(t, i, LitTotal)
        /\ SpaceRun(t, i + 5) >= 1
        /\ DigitRun(t, i + 5 + SpaceRun(t, i + 5)) >= 1}

\* a variant whose group is one digit: /Total\s+(\d)/i
TotalGroup_OneDigit(t, i) ==
    LET g == i + 5 + SpaceRun(t, i + 5)
    IN  SubSeq(t, g, g)

TotalGroup(t, i) ==
    LET g == i + 5 + SpaceRun(t, i + 5)
    IN  SubSeq(t, g, g + DigitRun(t, g) - 1)

extractTotal(message) ==
    LET starts == TotalStarts(message)
        match1 == TotalGroup(message, Min(starts))
    IN  IF starts # {} /\ match1 # <<>> THEN match1 ELSE NA

\* /(\d+)\s+ffb/i : the greedy \d+ takes the digit run that starts at i; a
\* shorter choice leaves a digit where \s is required
FFBStarts(t) ==
    {i \in 1..Len(t) :
        /\ IsDigit(t[i])
        /\ LET e == i + DigitRun(t, i)
           IN  /\ SpaceRun(t, e) >= 1
               /\ MatchLit(t, e + SpaceRun(t, e), LitFfb)}

FFBGroup(t, i) == SubSeq(t, i, i + DigitRun(t, i) - 1)

\* a variant without the sentinel: match ? match[1] : ""
extractFFB_EmptyWhenMissing(message) ==
    LET starts == FFBStarts(message)
    IN  IF starts # {} THEN FFBGroup(message, Min(starts)) ELSE <<>>

extractFFB(message) ==
    LET starts == FFBStarts(message)
        match1 == FFBGroup(message, Min(starts))
    IN  IF starts # {} /\ match1 # <<>> THEN match1 ELSE NA

\* /notes\s+([\s\S]*?)(\n|$)/i : no m flag, so $ is the end of the input.  The
\* greedy \s+ takes the whole white-space run, and the lazy group then ends at
\* the first line break or at the end of the input, which always exists.
NotesStarts(t) ==
    {i \in 1..Len(t) : MatchLit(t, i, LitNotes) /\ SpaceRun(t, i + 5) >= 1}

NotesGroup(t, i) ==
    LET g == i + 5 + SpaceRun(t, i + 5)
        p == Min({q \in g..(Len(t) + 1) : q = Len(t) + 1 \/ t[q] = "\n"})
    IN  SubSeq(t, g, p - 1)

extractNotes(message) ==
    LET starts == NotesStarts(message)
        match1 == NotesGroup(message, Min(starts))
    IN  IF starts # {} /\ match1 # <<>> THEN trim(match1) ELSE NA

\* generateSlackLink: String.prototype.replace with a string pattern replaces
\* the first occurrence of the pattern only
replaceFirst(s, c) ==
    LET at == {i \in 1..Len(s) : s[i] = c}
    IN  IF at = {} THEN s
        ELSE SubSeq(s, 1, Min(at) - 1) \o SubSeq(s, Min(at) + 1, Len(s))

workspaceUrl ==
    <<"h", "t", "t", "p", "s", ":", "/", "/", "y", "o", "u", "r", "-", "s", "l",
      "a", "c", "k", "-", "w", "o", "r", "k", "s", "p", "a", "c", "e", ".", "s",
      "l", "a", "c", "k", ".", "c", "o", "m">>

Archives == <<"/", "a", "r", "c", "h", "i", "v", "e", "s", "/">>

\* a variant that keeps the decimal point of the timestamp
generateSlackLink_KeepsPoint(channelId, timestamp) ==
    workspaceUrl \o Archives \o channelId \o <<"/", "p">> \o timestamp

generateSlackLink(channelId, timestamp) ==
    workspaceUrl \o Archives \o channelId \o <<"/", "p">> \o replaceFirst(timestamp, ".")

(***************************************************************************)
(* JSON values.  A member that holds text is [t, v] with v a sequence of   *)
(* characters: t = "str" for a string, "num" for a number (v its digits),  *)
(* "undef" for a missing member.  The discriminators (type, challenge) are *)
(* compared only as wholes, so their v is an atom.                         *)
(***************************************************************************)
JUndef == [t |-> "undef", v |-> <<>>]
JStr(s) == [t |-> "str", v |-> s]
JNum(s) == [t |-> "num", v |-> s]
AUndef == [t |-> "undef", v |-> ""]
AStr(a) == [t |-> "str", v |-> a]

\* what a template literal makes of a value: ${undefined} is "undefined"
ToStringJS(j) ==
    IF j.t = "undef" THEN <<"u", "n", "d", "e", "f", "i", "n", "e", "d">> ELSE j.v

(***************************************************************************)
(* new Date(ts * 1000), toISOString and toLocaleString.                    *)
(* The timestamps of the model are texts over digits, "." and letters; the *)
(* numeric ones are <digits> or <digits>.<digits>, as Slack sends them.    *)
(***************************************************************************)
RECURSIVE IntOf(_)
IntOf(ds) ==
    IF ds = <<>> THEN 0
    ELSE 10 * IntOf(SubSeq(ds, 1, Len(ds) - 1))
           + (CHOOSE d \in 0..9 : DigitChars[d + 1] = ds[Len(ds)])

\* the digits of n, at least width of them
RECURSIVE Pad(_, _)
Pad(n, width) ==
    IF n < 10 /\ width <= 1 THEN <<DigitChars[n + 1]>>
    ELSE Pad(n \div 10, width - 1) \o <<DigitChars[(n % 10) + 1]>>

AllDigits(ds) == \A i \in 1..Len(ds) : IsDigit(ds[i])

\* the most digits of whole seconds a valid Date can have: a Date holds at
\* most 8.64e15 ms, and 14 digits of seconds are at least 1e16 ms
MaxSecondsDigits == 13

\* ToNumber of the string, times 1000, truncated to whole milliseconds and
\* clipped to the range of Date: the empty string is 0, text that is no
\* numeric literal is NaN
newDate(ts) ==
    LET dots == {i \in 1..Len(ts) : ts[i] = "."}
        whole == IF dots = {} THEN ts ELSE SubSeq(ts, 1, Min(dots) - 1)
        frac == IF dots = {} THEN <<>> ELSE SubSeq(ts, Min(dots) + 1, Len(ts))
        numeric == /\ AllDigits(whole) /\ AllDigits(frac)
                   /\ (ts = <<>> \/ Len(whole) + Len(frac) >= 1)
        frac3 == SubSeq(frac \o <<"0", "0", "0">>, 1, 3)
    IN  IF ~numeric \/ Len(whole) > MaxSecondsDigits
        THEN [valid |-> FALSE, secs |-> 0, ms |-> 0]
        ELSE [valid |-> TRUE, secs |-> IntOf(whole), ms |-> IntOf(frac3)]

\* the civil date of a day number (days since 1970-01-01)
CivilFromDays(days) ==
    LET z == days + 719468
        era == z \div 146097
        doe == z - era * 146097
        yoe == (doe - doe \div 1460 + doe \div 36524 - doe \div 146096) \div 365
        doy == doe - (365 * yoe + yoe \div 4 - yoe \div 100)
        mp == (5 * doy + 2) \div 153
        d == doy - (153 * mp + 2) \div 5 + 1
        m == IF mp < 10 THEN mp + 3 ELSE mp - 9
        y == yoe + era * 400 + (IF m <= 2 THEN 1 ELSE 0)
    IN  [year |-> y, month |-> m, day |-> d]

SecondsPerDay == 86400

\* Date.prototype.toISOString of a valid date: YYYY-MM-DDTHH:mm:ss.sssZ
toISOString(date) ==
    LET c == CivilFromDays(date.secs \div SecondsPerDay)
        sod == date.secs % SecondsPerDay
    IN  Pad(c.year, 4) \o <<"-">> \o Pad(c.month, 2) \o <<"-">> \o Pad(c.day, 2)
          \o <<"T">> \o Pad(sod \div 3600, 2) \o <<":">> \o Pad((sod % 3600) \div 60, 2)
          \o <<":">> \o Pad(sod % 60, 2) \o <<".">> \o Pad(date.ms, 3) \o <<"Z">>

\* Asia/Jakarta is UTC+7 without daylight saving time
JakartaOffset == 25200

InvalidDate == <<"I", "n", "v", "a", "l", "i", "d", " ", "D", "a", "t", "e">>

\* toLocaleString("en-US", { timeZone: "Asia/Jakarta" }): M/D/YYYY, h:mm:ss AM
toLocaleString(date) ==
    IF ~date.valid THEN InvalidDate
    ELSE
    LET local == date.secs + JakartaOffset
        c == CivilFromDays(local \div SecondsPerDay)
        sod == local % SecondsPerDay
        h24 == sod \div 3600
        h12 == IF h24 % 12 = 0 THEN 12 ELSE h24 % 12
    IN  Pad(c.month, 1) \o <<"/">> \o Pad(c.day, 1) \o <<"/">> \o Pad(c.year, 1)
          \o <<",", " ">> \o Pad(h12, 1) \o <<":">> \o Pad((sod % 3600) \div 60, 2)
          \o <<":">> \o Pad(sod % 60, 2) \o <<" ">>
          \o (IF h24 < 12 THEN <<"A", "M">> ELSE <<"P", "M">>)

\* String.prototype.split(", ")
RECURSIVE split(_)
split(s) ==
    LET at == {i \in 1..(Len(s) - 1) : s[i] = "," /\ s[i + 1] = " "}
    IN  IF at = {} THEN <<s>>
        ELSE <<SubSeq(s, 1, Min(at) - 1)>> \o split(SubSeq(s, Min(at) + 2, Len(s)))

(***************************************************************************)
(* The texts the model draws its inputs from.                              *)
(***************************************************************************)
SP == <<" ">>
NL == <<"\n">>
H2H == <<"H", "2", "H">>
To == <<"t", "o">>
Total == <<"T", "o", "t", "a", "l">>
Ffb == <<"f", "f", "b">>
Notes == <<"n", "o", "t", "e", "s">>
BRI == <<"B", "R", "I">>
BCA == <<"B", "C", "A">>
Mandiri == <<"M", "a", "n", "d", "i", "r", "i">>
Pluto == <<"P", "l", "u", "t", "o">>
Banknotes == <<"B", "a", "n", "k", "n", "o", "t", "e", "s">>
N9000 == <<"9", "0", "0", "0">>
N10000 == <<"1", "0", "0", "0", "0">>
N5 == <<"5">>
N10 == <<"1", "0">>
Insufficient == <<"I", "n", "s", "u", "f", "f", "i", "c", "i", "e", "n", "t", " ",
                  "b", "a", "l", "a", "n", "c", "e">>
Delayed == <<"D", "e", "l", "a", "y", "e", "d", " ", "u", "n", "t", "i", "l", " ",
             "b", "a", "l", "a", "n", "c", "e", " ", "s", "a", "f", "e">>

\* the concatenation of a sequence of texts
RECURSIVE Concat(_)
Concat(ss) == IF ss = <<>> THEN <<>> ELSE Head(ss) \o Concat(Tail(ss))

\* t contains the literal lit (case-folded) somewhere
Contains(t, lit) == \E i \in 1..Len(t) : MatchLit(t, i, lit)

EndsWith(t, lit) == Len(t) >= Len(lit) /\ MatchLit(t, Len(t) - Len(lit) + 1, lit)

HasBreak(t) == \E j \in 1..Len(t) : t[j] = "\n"

HasSpace(t) == \E j \in 1..Len(t) : IsSpace(t[j])

StartsWith(t, prefix) == Len(t) >= Len(prefix) /\ SubSeq(t, 1, Len(prefix)) = prefix

\* the longest free-form message, in pieces
MaxPieces == 4

\* the pieces free-form messages are made of: the anchors in mixed case, a
\* word, a number, a space and a line break
Pieces ==
    { <<"H", "2", "h">>, <<"T", "O">>, <<"t", "o", "t", "a", "l">>,
      <<"F", "f", "b">>, <<"N", "o", "t", "e", "s">>,
      SP, NL, BRI, <<"9", "0">> }

RECURSIVE FreeMessages(_)
FreeMessages(longest) ==
    IF longest = 0 THEN {<<>>}
    ELSE LET shorter == FreeMessages(longest - 1)
         IN  shorter \cup {m \o piece : m \in shorter, piece \in Pieces}

\* the messages of the shape "H2H <S> to <B> Total <T> (<F> ffb) notes <N>"
ShapeWords == {BRI, BCA, Mandiri, Pluto, Banknotes, Total, N5}
ShapeTotals == {N9000, N10000}
ShapeQuantities == {N5, N10}
ShapeNotes == {Insufficient, Delayed, <<"o", "k", " ">>}
\* the separators between the fields: all spaces, all line breaks, the README
\* layout (a line break before Total and before notes), and wide gaps
Layouts ==
    { <<SP, SP, SP, SP, SP, SP, SP, SP>>,
      <<NL, NL, NL, NL, NL, NL, NL, NL>>,
      <<SP, SP, SP, NL, SP, SP, NL, SP>>,
      <<SP \o SP, NL \o SP, SP \o NL, SP \o SP, NL \o NL, SP, SP \o NL, NL \o SP>> }

ShapeMessage(S, B, T, F, N, sep) ==
    Concat(<<H2H, sep[1], S, sep[2], To, sep[3], B, sep[4], Total, sep[5], T,
             sep[6], <<"(">>, F, sep[7], Ffb, <<")">>, sep[7], Notes, sep[8], N>>)

\* the scenario of the specification
Scenario ==
    ShapeMessage(BRI, BCA, N9000, N5, Insufficient, <<SP, SP, SP, SP, SP, SP, SP, SP>>)

\* the inputs of generateSlackLink
Channels == { <<"C", "1", "2", "3">>, <<"C", ".", "9">>, <<>> }
TsSeconds == { <<"1", "6", "9", "8", "2", "5", "7", "6", "9", "6">>, <<"0">> }
TsFractions == { <<"1", "2", "3", "4", "5", "6">>, <<"0", "0", "0", "1", "0", "0">> }

\* the channel and timestamp that accompany the messages
SampleChannel == <<"C", "1", "2", "3">>
SampleTs == <<"1", "6", "9", "8", "2", "5", "7", "6", "9", "6", ".",
              "1", "2", "3", "4", "5", "6">>

\* the README's test message, and messages whose fields hold line breaks
AtMyApp == <<"@", "M", "y", "A", "p", "p", " ">>
ReadmeMessage ==
    Concat(<<AtMyApp, H2H, SP, BRI, SP, To, SP, BCA, NL, Total, SP, N9000, SP,
             <<"(">>, N5, SP, Ffb, <<")">>, NL, <<"W", "i", "t", "h">>, SP,
             Notes, SP, Insufficient>>)
SampleMessages ==
    { ReadmeMessage,
      Concat(<<H2H, NL, BRI, SP, To, SP, BCA, NL, Mandiri, SP, Total, NL, N9000,
               SP, <<"(">>, N5, NL, Ffb, <<")">>, SP, Notes, NL, Delayed, NL,
               Insufficient>>),
      Concat(<<Mandiri, SP, BCA, SP, N9000>>) }

FreeInputs(longest) ==
    {[kind |-> "free", text |-> m, parts |-> <<>>,
      channel |-> SampleChannel, ts |-> SampleTs] : m \in FreeMessages(longest)}
SampleInputs ==
    {[kind |-> "sample", text |-> m, parts |-> <<>>,
      channel |-> SampleChannel, ts |-> SampleTs] : m \in SampleMessages}
ShapeInputs ==
    {[kind |-> "shape",
      text |-> ShapeMessage(x[1], x[2], x[3], x[4], x[5], x[6]),
      parts |-> <<x[1], x[2], x[3], x[4], x[5]>>,
      channel |-> SampleChannel, ts |-> SampleTs] :
        x \in ShapeWords \X ShapeWords \X ShapeTotals \X ShapeQuantities
              \X ShapeNotes \X Layouts}
\* the timestamp of a link input is <seconds>.<fraction>
LinkInputs ==
    {[kind |-> "link", text |-> <<>>, parts |-> <<x[2], x[3]>>,
      channel |-> x[1], ts |-> x[2] \o <<".">> \o x[3]] :
        x \in Channels \X TsSeconds \X TsFractions}

(***************************************************************************)
(* The pure functions applied to one input, in the order of doPost.        *)
(***************************************************************************)
InitExtract ==
    /\ \/ input \in FreeInputs(MaxPieces)
       \/ input \in SampleInputs
       \/ input \in ShapeInputs
       \/ input \in LinkInputs
    /\ output = <<>>
    /\ phase = "input"
    /\ sheet = <<>>
    /\ history = <<>>
    /\ exec = <<>>
    /\ last = <<>>

\* the five extractors, each applied to the same message
Extract ==
    /\ phase = "input"
    /\ output' = << extractSourceBank(input.text),
                    extractBeneficiaryBank(input.text),
                    extractTotal(input.text),
                    extractFFB(input.text),
                    extractNotes(input.text) >>
    /\ phase' = "extracted"
    /\ UNCHANGED <<input, sheet, history, exec, last>>

Link ==
    /\ phase = "extracted"
    /\ output' = Append(output, generateSlackLink(input.channel, input.ts))
    /\ phase' = "done"
    /\ UNCHANGED <<input, sheet, history, exec, last>>

NextExtract == Extract \/ Link

SpecExtract == InitExtract /\ [][NextExtract]_vars

(***************************************************************************)
(* The requests.  e.postData.contents is either absent ("none"), not JSON  *)
(* ("malformed"), or JSON that parses to null, to a scalar or to an object *)
(* with the members type, challenge and event.                             *)
(***************************************************************************)
NoEvent ==
    [shape |-> "undef", type |-> AUndef, text |-> JUndef, channel |-> JUndef,
     ts |-> JUndef]
ScalarEvent == [NoEvent EXCEPT !.shape = "scalar"]
Event(type, text, channel, ts) ==
    [shape |-> "object", type |-> type, text |-> text, channel |-> channel, ts |-> ts]

Body(type, challenge, event) ==
    [post |-> "json", shape |-> "object", type |-> type, challenge |-> challenge,
     event |-> event]
NotAnObject(post, shape) ==
    [post |-> post, shape |-> shape, type |-> AUndef, challenge |-> AUndef,
     event |-> NoEvent]

Hello == <<"h", "e", "l", "l", "o", " ", "t", "e", "a", "m">>
EarlierTs == <<"1", "6", "9", "8", "2", "0", "0", "0", "0", "0", ".",
               "0", "0", "0", "1", "0", "0">>
FarFutureTs == <<"9", "9", "9", "9", "9", "9", "9", "9", "9", "9", "9", "9", "9", "9">>
Mention == AStr("app_mention")

\* the requests that get a row
GoodMentions ==
    { Body(AUndef, AUndef, Event(Mention, JStr(ReadmeMessage), JStr(SampleChannel), JStr(SampleTs))),
      Body(AStr("event_callback"), AUndef,
           Event(Mention, JStr(Hello), JStr(SampleChannel), JStr(EarlierTs))),
      Body(AUndef, AUndef, Event(Mention, JStr(Concat(<<H2H, SP, BRI>>)), JUndef, JStr(<<>>))) }

\* the mentions whose processing throws before appendRow
BadMentions ==
    { Body(AUndef, AUndef, Event(Mention, JUndef, JStr(SampleChannel), JStr(SampleTs))),
      Body(AUndef, AUndef, Event(Mention, JNum(N5), JStr(SampleChannel), JStr(SampleTs))),
      Body(AUndef, AUndef, Event(Mention, JStr(Scenario), JStr(SampleChannel), JUndef)),
      Body(AUndef, AUndef, Event(Mention, JStr(Scenario), JStr(SampleChannel),
                                 JNum(SampleTs))),
      Body(AUndef, AUndef, Event(Mention, JStr(Scenario), JStr(SampleChannel),
                                 JStr(<<"a", "b", "c">>))),
      Body(AUndef, AUndef, Event(Mention, JStr(Scenario), JStr(SampleChannel),
                                 JStr(FarFutureTs))) }

Handshakes ==
    { Body(AStr("url_verification"), AStr("abc123"), NoEvent),
      Body(AStr("url_verification"), AUndef, NoEvent),
      Body(AStr("url_verification"), AStr("xyz"),
           Event(Mention, JStr(Scenario), JStr(SampleChannel), JStr(SampleTs))) }

OtherRequests ==
    { NotAnObject("none", "none"),
      NotAnObject("malformed", "none"),
      NotAnObject("json", "null"),
      NotAnObject("json", "scalar"),
      Body(AStr("event_callback"), AUndef, NoEvent),
      Body(AStr("event_callback"), AUndef, ScalarEvent),
      Body(AStr("event_callback"), AUndef,
           Event(AStr("message"), JStr(Scenario), JStr(SampleChannel), JStr(SampleTs))),
      Body(AStr("event_callback"), AUndef,
           Event(AUndef, JStr(Scenario), JStr(SampleChannel), JStr(SampleTs))) }

Requests == GoodMentions \cup BadMentions \cup Handshakes \cup OtherRequests

(***************************************************************************)
(* doPost.                                                                 *)
(***************************************************************************)
\* JSON.stringify of the two response objects: a member whose value is
\* undefined is left out
Success == << [key |-> "success", t |-> "bool", v |-> "true"] >>
ChallengeResponse(challenge) ==
    IF challenge.t = "undef" THEN <<>>
    ELSE << [key |-> "challenge", t |-> challenge.t, v |-> challenge.v] >>

Thrown(extracted) ==
    [kind |-> "throw", challenge |-> AUndef, row |-> <<>>, extracted |-> extracted]

\* a variant that leaves the fields without a value out of the row
BuildRow_DropMissing(timestamp, date, time, sourceBank, beneficiaryBank, total, ffb, notes, linkSlack) ==
    LET Found(c) == c # NA
    IN  << toISOString(timestamp), date, time >>
          \o SelectSeq(<<sourceBank, beneficiaryBank, total, ffb, notes>>, Found)
          \o << linkSlack >>

\* the array literal given to appendRow
BuildRow(timestamp, date, time, sourceBank, beneficiaryBank, total, ffb, notes, linkSlack) ==
    << toISOString(timestamp), date, time, sourceBank, beneficiaryBank, total,
       ffb, notes, linkSlack >>

\* a variant that writes an invalid date instead of throwing on it
processMention_NoRangeError(event) ==
    IF event.text.t # "str" THEN Thrown(TRUE)
    ELSE IF event.ts.t # "str" THEN Thrown(TRUE)
    ELSE
    LET messageText == event.text.v
        timestamp == newDate(event.ts.v)
        dateTime == split(toLocaleString(timestamp)) \o << <<>> >>
    IN  [kind |-> "append", challenge |-> AUndef, extracted |-> TRUE,
         row |-> << IF timestamp.valid THEN toISOString(timestamp) ELSE InvalidDate,
                    dateTime[1], dateTime[2],
                    extractSourceBank(messageText),
                    extractBeneficiaryBank(messageText),
                    extractTotal(messageText),
                    extractFFB(messageText),
                    extractNotes(messageText),
                    generateSlackLink(ToStringJS(event.channel), event.ts.v) >>]

\* lines 35-73 up to the call of appendRow: message.match throws for a text
\* that is no string, timestamp.replace for a ts that is no string, and
\* toISOString for an invalid date
processMention(event) ==
    IF event.text.t # "str" THEN Thrown(TRUE)
    ELSE IF event.ts.t # "str" THEN Thrown(TRUE)
    ELSE
    LET messageText == event.text.v
        timestamp == newDate(event.ts.v)
        dateTime == split(toLocaleString(timestamp))
    IN  IF ~timestamp.valid THEN Thrown(TRUE)
        ELSE [kind |-> "append", challenge |-> AUndef, extracted |-> TRUE,
              row |-> BuildRow(timestamp, dateTime[1], dateTime[2],
                               extractSourceBank(messageText),
                               extractBeneficiaryBank(messageText),
                               extractTotal(messageText),
                               extractFFB(messageText),
                               extractNotes(messageText),
                               generateSlackLink(ToStringJS(event.channel), event.ts.v))]

\* data.type === "url_verification"
isHandshake(data) == data.type = AStr("url_verification")

\* a variant that takes every event for a mention
isMention_AnyEvent(data) == data.event.shape = "object"

\* data.event && data.event.type === "app_mention"
isMention(data) == data.event.shape = "object" /\ data.event.type = Mention

\* a variant that looks for the mention before the handshake
tryBlock_MentionFirst(e) ==
    IF e.post # "json" \/ e.shape = "null" THEN Thrown(FALSE)
    ELSE IF e.event.shape = "object" /\ e.event.type = Mention
    THEN processMention(e.event)
    ELSE IF e.type = AStr("url_verification")
    THEN [kind |-> "handshake", challenge |-> e.challenge, row |-> <<>>,
          extracted |-> FALSE]
    ELSE [kind |-> "skip", challenge |-> AUndef, row |-> <<>>, extracted |-> FALSE]

\* the try block of doPost up to the call of appendRow: e.postData.contents
\* of a request without postData and JSON.parse of malformed text throw, and
\* so does data.type of null
tryBlock(e) ==
    IF e.post # "json" \/ e.shape = "null" THEN Thrown(FALSE)
    ELSE IF isHandshake(e)
    THEN [kind |-> "handshake", challenge |-> e.challenge, row |-> <<>>,
          extracted |-> FALSE]
    ELSE IF isMention(e) THEN processMention(e.event)
    ELSE [kind |-> "skip", challenge |-> AUndef, row |-> <<>>, extracted |-> FALSE]

\* the try block is a function of the request
Outcome == [e \in Requests |-> tryBlock(e)]

\* a variant that does not write a row the sheet already holds
appendRow_SkipDuplicate(rows, row) ==
    IF \E i \in 1..Len(rows) : rows[i] = row THEN rows ELSE Append(rows, row)

\* sheet.appendRow
appendRow(rows, row) == Append(rows, row)

Idle ==
    [pc |-> "idle", req |-> NotAnObject("none", "none"), row |-> <<>>, resp |-> <<>>,
     escaped |-> FALSE, logged |-> FALSE, extracted |-> FALSE, failed |-> FALSE,
     calls |-> 0, appended |-> 0]

\* a variant that throws the error again
catchError_Rethrow(x) == [x EXCEPT !.pc = "return", !.logged = TRUE, !.escaped = TRUE]

\* the catch block and the return that follows it
catchError(x) == [x EXCEPT !.pc = "return", !.logged = TRUE, !.resp = Success]

\* the most rows the sheet of the model holds
MaxRows == 2
\* the most executions of doPost that wait in appendRow at the same time
MaxExecs == 2

Execs == 1..MaxExecs

Init ==
    /\ sheet = <<>>
    /\ history = <<>>
    /\ exec = [s \in Execs |-> Idle]
    /\ last = Idle
    /\ input = [kind |-> "none", text |-> <<>>, parts |-> <<>>, channel |-> <<>>,
                ts |-> <<>>]
    /\ output = <<>>
    /\ phase = "idle"

\* a request arrives and doPost runs up to its return or, when it has a row
\* to write, up to the call of appendRow, where it waits in the first free slot
Start(s, e) ==
    /\ exec[s].pc = "idle"
    /\ \A t \in Execs : t < s => exec[t].pc # "idle"
    /\ LET o == Outcome[e]
           x == [Idle EXCEPT !.req = e, !.extracted = o.extracted]
       IN  IF o.kind = "append"
           THEN /\ exec' = [exec EXCEPT ![s] = [x EXCEPT !.pc = "append", !.row = o.row]]
                /\ UNCHANGED last
           ELSE /\ last' =
                     CASE o.kind = "throw" -> catchError(x)
                       [] o.kind = "handshake" ->
                            [x EXCEPT !.pc = "return",
                                      !.resp = ChallengeResponse(o.challenge)]
                       [] o.kind = "skip" -> [x EXCEPT !.pc = "return", !.resp = Success]
                /\ UNCHANGED exec
    /\ UNCHANGED <<sheet, history, input, output, phase>>

\* appendRow writes the row, and doPost returns
AppendRowOk(s) ==
    /\ exec[s].pc = "append"
    /\ Len(sheet) < MaxRows
    /\ sheet' = appendRow(sheet, exec[s].row)
    /\ history' = Append(history, exec[s].req)
    /\ last' = [exec[s] EXCEPT !.pc = "return", !.resp = Success, !.calls = @ + 1,
                               !.appended = @ + Len(sheet') - Len(sheet)]
    /\ exec' = [exec EXCEPT ![s] = Idle]
    /\ UNCHANGED <<input, output, phase>>

\* appendRow throws, the catch block takes over, and doPost returns
AppendRowFails(s) ==
    /\ exec[s].pc = "append"
    /\ last' = catchError([exec[s] EXCEPT !.calls = @ + 1, !.failed = TRUE])
    /\ exec' = [exec EXCEPT ![s] = Idle]
    /\ UNCHANGED <<sheet, history, input, output, phase>>

Next ==
    \E s \in Execs :
        \/ \E e \in Requests : Start(s, e)
        \/ AppendRowOk(s)
        \/ AppendRowFails(s)

Spec == Init /\ [][Next]_vars

(***************************************************************************)
(* Properties of doPost, checked under Spec.                               *)
(***************************************************************************)
IsHandshakeReq(e) ==
    /\ e.post = "json" /\ e.shape = "object"
    /\ e.type.t = "str" /\ e.type.v = "url_verification"

IsMentionReq(e) ==
    /\ e.post = "json" /\ e.shape = "object"
    /\ ~IsHandshakeReq(e)
    /\ e.event.shape = "object"
    /\ e.event.type.t = "str" /\ e.event.type.v = "app_mention"

SuccessBody == << [key |-> "success", t |-> "bool", v |-> "true"] >>

\* C1: whatever the request, doPost reaches its return with a response and no
\* exception escapes it; unless the request is the handshake, the response
\* body is { success: true }.
C1_AlwaysAcknowledges ==
    /\ ~last.escaped
    /\ last.pc \in {"idle", "return"}
    /\ last.pc = "return" =>
          /\ last.resp # <<>> \/ IsHandshakeReq(last.req)
          /\ ~IsHandshakeReq(last.req) => last.resp = SuccessBody
    /\ \A s \in Execs : ~exec[s].escaped /\ exec[s].pc \in {"idle", "append"}

C1_Witness ==
    /\ last.pc = "return"
    /\ last.req.post = "malformed"
    /\ last.logged
    /\ last.resp = SuccessBody

\* C2: a request whose type is url_verification is answered with
\* { challenge: <its challenge> } and nothing else happens: no extraction, no
\* call of appendRow, no row, even when the body also carries an app_mention
\* event.
C2_HandshakeOnly ==
    /\ (last.pc = "return" /\ IsHandshakeReq(last.req)) =>
          /\ last.req.challenge.t = "str" =>
                last.resp = << [key |-> "challenge", t |-> "str",
                                v |-> last.req.challenge.v] >>
          /\ ~last.extracted
          /\ ~last.logged
          /\ last.row = <<>>
          /\ last.calls = 0
          /\ last.appended = 0
    /\ \A s \in Execs : exec[s].pc = "append" => ~IsHandshakeReq(exec[s].req)
    /\ \A i \in 1..Len(history) : ~IsHandshakeReq(history[i])

C2_Witness ==
    /\ last.pc = "return"
    /\ last.req.type = AStr("url_verification")
    /\ last.req.event.shape = "object"
    /\ last.req.event.type = AStr("app_mention")
    /\ last.resp = << [key |-> "challenge", t |-> "str", v |-> "xyz"] >>
    /\ sheet = <<>>
    /\ \A s \in Execs : exec[s].pc = "idle"

\* the mention cannot be processed: its text or its ts is no string, or its ts
\* gives an invalid date
Unprocessable(event) ==
    \/ event.text.t # "str"
    \/ event.ts.t # "str"
    \/ ~newDate(event.ts.v).valid

\* C3: when a step of the processing of a mention throws (text or ts no
\* string, invalid date, appendRow failing), the error is logged, the response
\* is { success: true }, and the request has put no row into the sheet:
\* appendRow was called at most once and wrote nothing.
C3_FailureDropsRecord ==
    /\ (/\ last.pc = "return"
        /\ IsMentionReq(last.req)
        /\ (Unprocessable(last.req.event) \/ last.failed)) =>
          /\ last.logged
          /\ ~last.escaped
          /\ last.resp = SuccessBody
          /\ last.appended = 0
          /\ last.calls <= 1
          /\ Unprocessable(last.req.event) => last.calls = 0
    /\ \A s \in Execs :
          (exec[s].pc = "append") => ~Unprocessable(exec[s].req.event)
    /\ \A i \in 1..Len(history) : ~Unprocessable(history[i].event)

\* appendRow failed for a mention while the sheet held a row, and the sheet
\* still holds that row only
C3_Witness ==
    /\ last.pc = "return" /\ last.failed /\ last.logged
    /\ last.appended = 0 /\ last.resp = SuccessBody
    /\ Len(sheet) = 1
    /\ history[1] # last.req

IsIsoInstant(c) ==
    /\ Len(c) = 24
    /\ c[5] = "-" /\ c[8] = "-" /\ c[11] = "T" /\ c[14] = ":" /\ c[17] = ":"
    /\ c[20] = "." /\ c[24] = "Z"
    /\ \A i \in (1..23) \ {5, 8, 11, 14, 17, 20} : IsDigit(c[i])

IsLocalDate(c) ==
    /\ Cardinality({i \in 1..Len(c) : c[i] = "/"}) = 2
    /\ \A i \in 1..Len(c) : IsDigit(c[i]) \/ c[i] = "/"

IsLocalTime(c) ==
    /\ Len(c) >= 10
    /\ SubSeq(c, Len(c) - 2, Len(c)) \in {<<" ", "A", "M">>, <<" ", "P", "M">>}
    /\ Cardinality({i \in 1..Len(c) : c[i] = ":"}) = 2

\* what the extractors give for each message text of the requests, and the
\* anchors the text holds
MessageTexts == {e.event.text.v : e \in Requests}
Expected ==
    [m \in MessageTexts |->
        [sourceBank |-> extractSourceBank(m),
         beneficiaryBank |-> extractBeneficiaryBank(m),
         total |-> extractTotal(m),
         ffb |-> extractFFB(m),
         notes |-> extractNotes(m),
         hasH2H |-> Contains(m, LitH2H),
         hasTotal |-> Contains(m, LitTotal),
         hasFfb |-> Contains(m, LitFfb),
         hasNotes |-> Contains(m, LitNotes)]]

\* C4: every row of the sheet has nine columns: the UTC instant, the local
\* date, the local time, then the source bank, the beneficiary bank, the
\* total, the FFB quantity and the notes of the message, each in its own
\* column ("N/A" when its pattern is absent), then the permalink.
C4_NineColumns ==
    \A i \in 1..Len(sheet) :
        LET r == sheet[i]
            x == Expected[history[i].event.text.v]
        IN  /\ Len(r) = 9
            /\ IsIsoInstant(r[1]) /\ IsLocalDate(r[2]) /\ IsLocalTime(r[3])
            /\ r[4] = x.sourceBank
            /\ r[5] = x.beneficiaryBank
            /\ r[6] = x.total
            /\ r[7] = x.ffb
            /\ r[8] = x.notes
            /\ ~x.hasH2H => r[4] = NA
            /\ ~x.hasTotal => r[5] = NA /\ r[6] = NA
            /\ ~x.hasFfb => r[7] = NA
            /\ ~x.hasNotes => r[8] = NA
            /\ StartsWith(r[9], workspaceUrl \o Archives)

\* a row for a message with the source bank only, and a row for the README's
\* message
C4_Witness ==
    /\ Len(sheet) = 2
    /\ sheet[1] = << <<"1","9","7","0","-","0","1","-","0","1","T","0","0",":","0","0",
                       ":","0","0",".","0","0","0","Z">>,
                     <<"1","/","1","/","1","9","7","0">>,
                     <<"7",":","0","0",":","0","0"," ","A","M">>,
                     BRI, NA, NA, NA, NA,
                     workspaceUrl \o Archives
                        \o <<"u","n","d","e","f","i","n","e","d","/","p">> >>
    /\ sheet[2] = << <<"2","0","2","3","-","1","0","-","2","5","T","1","8",":","1","4",
                       ":","5","6",".","1","2","3","Z">>,
                     <<"1","0","/","2","6","/","2","0","2","3">>,
                     <<"1",":","1","4",":","5","6"," ","A","M">>,
                     BRI, BCA, N9000, N5, Insufficient,
                     workspaceUrl \o Archives \o SampleChannel
                        \o <<"/","p","1","6","9","8","2","5","7","6","9","6",
                             "1","2","3","4","5","6">> >>

\* C9: the sheet is the rows of the mentions whose appendRow completed, in the
\* order of completion, duplicates included, and a step never changes, removes
\* or reorders a row that is already there.
C9_AppendOnly ==
    /\ [](sheet = [i \in 1..Len(history) |-> Outcome[history[i]].row])
    /\ [][/\ Len(sheet') >= Len(sheet)
          /\ SubSeq(sheet', 1, Len(sheet)) = sheet]_vars

\* the same event delivered twice has given two equal rows
C9_Witness ==
    /\ Len(sheet) = 2
    /\ sheet[1] = sheet[2]
    /\ history[1] = history[2]
    /\ history[1].event.ts = JStr(SampleTs)

\* C10: a step changes the sheet only by appending one row for an execution
\* whose request is an app_mention and no handshake; an execution appends at
\* most one row.
C10_OnlyMentionsWrite ==
    /\ [](/\ last.appended <= 1
          /\ last.appended = 1 => IsMentionReq(last.req))
    /\ [][sheet' # sheet =>
            /\ Len(sheet') = Len(sheet) + 1
            /\ \E s \in Execs :
                  /\ IsMentionReq(exec[s].req)
                  /\ exec[s].pc = "append"
                  /\ exec'[s].pc = "idle"
                  /\ last'.req = exec[s].req
                  /\ \A u \in Execs \ {s} : exec'[u] = exec[u]]_vars

\* an event of another type has been answered and the sheet holds the one row
\* that a mention wrote before
C10_Witness ==
    /\ last.pc = "return"
    /\ last.req.event.type = AStr("message")
    /\ last.resp = SuccessBody
    /\ last.appended = 0
    /\ Len(sheet) = 1

(***************************************************************************)
(* Properties of the pure functions, checked under SpecExtract.            *)
(***************************************************************************)
Extracted == phase \in {"extracted", "done"}

\* C5: a message that lacks an extractor's anchor literal (H2H; to or Total;
\* Total; ffb; notes, compared without regard to case) gets the sentinel N/A
\* from that extractor, and a message without any anchor gets N/A for all five
\* fields while generateSlackLink still builds a permalink.
C5_MissingAnchorGivesNA ==
    /\ Extracted =>
        /\ ~Contains(input.text, LitH2H) => output[1] = NA
        /\ ~(Contains(input.text, LitTo) /\ Contains(input.text, LitTotal))
              => output[2] = NA
        /\ ~Contains(input.text, LitTotal) => output[3] = NA
        /\ ~Contains(input.text, LitFfb) => output[4] = NA
        /\ ~Contains(input.text, LitNotes) => output[5] = NA
    /\ (phase = "done" /\ \A lit \in {LitH2H, LitTo, LitTotal, LitFfb, LitNotes} :
                              ~Contains(input.text, lit))
          => /\ Len(output) = 6
             /\ \A k \in 1..5 : output[k] = NA
             /\ StartsWith(output[6], workspaceUrl \o Archives)
             /\ output[6] # NA

C5_Witness ==
    /\ phase = "done"
    /\ Len(input.text) >= 4
    /\ HasSpace(input.text)
    /\ \A lit \in {LitH2H, LitTo, LitTotal, LitFfb, LitNotes} : ~Contains(input.text, lit)
    /\ \A k \in 1..5 : output[k] = NA
    /\ Len(output[6]) > Len(workspaceUrl)

\* C6 as claimed: every message of the shape
\* "H2H <S> to <B> Total <T> (<F> ffb) notes <N>" yields S, B, T, F and N.
C6_Original ==
    (Extracted /\ input.kind = "shape") =>
        /\ output[1] = input.parts[1]
        /\ output[2] = input.parts[2]
        /\ output[3] = input.parts[3]
        /\ output[4] = input.parts[4]
        /\ output[5] = input.parts[5]

\* the words and notes of the shape for which the anchors to and notes occur
\* for the first time where the shape puts them
ShapeIsUnambiguous(parts) ==
    /\ ~EndsWith(parts[1], LitTo)
    /\ ~EndsWith(parts[1], LitNotes)
    /\ ~EndsWith(parts[2], LitNotes)
    /\ parts[5] # <<>>
    /\ trim(parts[5]) = parts[5]

\* C6 (amended): a message of the shape yields S, B, T, F and N when S does
\* not end in "to", neither S nor B ends in "notes" (compared without regard
\* to case), and N is not empty and has no white space at either end.
C6_ShapeYieldsFields ==
    (Extracted /\ input.kind = "shape" /\ ShapeIsUnambiguous(input.parts)) =>
        /\ output[1] = input.parts[1]
        /\ output[2] = input.parts[2]
        /\ output[3] = input.parts[3]
        /\ output[4] = input.parts[4]
        /\ output[5] = input.parts[5]

C6_Witness ==
    /\ phase = "done"
    /\ input.kind = "shape"
    /\ input.text = Scenario
    /\ output[1] = BRI /\ output[2] = BCA /\ output[3] = N9000
    /\ output[4] = N5 /\ output[5] = Insufficient

\* C7: the permalink is the workspace URL, "/archives/", the channel unchanged,
\* "/p", and the timestamp <seconds>.<fraction> without its decimal point.
C7_PermalinkShape ==
    (phase = "done" /\ input.kind = "link") =>
        output[6] = workspaceUrl \o <<"/", "a", "r", "c", "h", "i", "v", "e", "s", "/">>
                        \o input.channel \o <<"/", "p">>
                        \o input.parts[1] \o input.parts[2]

C7_Witness ==
    /\ phase = "done"
    /\ input.kind = "link"
    /\ input.channel = <<"C", ".", "9">>
    /\ input.ts = <<"1", "6", "9", "8", "2", "5", "7", "6", "9", "6", ".",
                    "1", "2", "3", "4", "5", "6">>
    /\ Len(output[6]) = Len(workspaceUrl) + 10 + 3 + 2 + 16

\* the token that follows an anchor of n characters at the start of t, when
\* white space holding a line break separates the two
GapHasBreak(t, n) == HasBreak(SubSeq(t, n + 1, n + SpaceRun(t, n + 1)))
WordAfter(t, i) == SubSeq(t, i + SpaceRun(t, i), i + SpaceRun(t, i) + WordRun(t, i + SpaceRun(t, i)) - 1)
DigitsAfter(t, i) == SubSeq(t, i + SpaceRun(t, i), i + SpaceRun(t, i) + DigitRun(t, i + SpaceRun(t, i)) - 1)

\* C8 as claimed: when a line break separates the anchor from the candidate
\* token, extractSourceBank, extractTotal and extractFFB do not return it.
C8_Original ==
    Extracted =>
        /\ \A i \in 1..Len(input.text) :
              (/\ MatchLit(input.text, i, LitH2H)
               /\ HasBreak(SubSeq(input.text, i + 3, i + 2 + SpaceRun(input.text, i + 3)))
               /\ WordAfter(input.text, i + 3) # <<>>)
                 => output[1] # WordAfter(input.text, i + 3)
        /\ \A i \in 1..Len(input.text) :
              (/\ MatchLit(input.text, i, LitTotal)
               /\ HasBreak(SubSeq(input.text, i + 5, i + 4 + SpaceRun(input.text, i + 5)))
               /\ DigitsAfter(input.text, i + 5) # <<>>)
                 => output[3] # DigitsAfter(input.text, i + 5)
        /\ \A i \in 1..Len(input.text) :
              (/\ DigitRun(input.text, i) >= 1
               /\ HasBreak(SubSeq(input.text, i + DigitRun(input.text, i),
                      i + DigitRun(input.text, i) - 1
                        + SpaceRun(input.text, i + DigitRun(input.text, i))))
               /\ MatchLit(input.text, i + DigitRun(input.text, i)
                      + SpaceRun(input.text, i + DigitRun(input.text, i)), LitFfb))
                 => output[4] # SubSeq(input.text, i, i + DigitRun(input.text, i) - 1)

\* C8 (amended): the values extractSourceBank, extractTotal and extractFFB
\* return never hold white space, and the value extractNotes returns never
\* holds a line break; but a line break between the anchor and the token is
\* white space like any other: a message that starts with H2H (Total), white
\* space holding a line break and a word (digits) yields that word (those
\* digits), and a message that starts with digits, white space holding a line
\* break and ffb yields those digits.
C8_TokenAcrossLineBreak ==
    Extracted =>
        /\ ~HasSpace(output[1]) /\ ~HasSpace(output[3]) /\ ~HasSpace(output[4])
        /\ ~HasBreak(output[5])
        /\ (/\ MatchLit(input.text, 1, LitH2H)
            /\ GapHasBreak(input.text, 3)
            /\ WordAfter(input.text, 4) # <<>>)
              => output[1] = WordAfter(input.text, 4)
        /\ (/\ MatchLit(input.text, 1, LitTotal)
            /\ GapHasBreak(input.text, 5)
            /\ DigitsAfter(input.text, 6) # <<>>)
              => output[3] = DigitsAfter(input.text, 6)
        /\ (/\ DigitRun(input.text, 1) >= 1
            /\ GapHasBreak(input.text, DigitRun(input.text, 1))
            /\ MatchLit(input.text, DigitRun(input.text, 1) + 1
                   + SpaceRun(input.text, DigitRun(input.text, 1) + 1), LitFfb))
              => output[4] = SubSeq(input.text, 1, DigitRun(input.text, 1))

\* a multi-line message: H2H and its word, Total and its digits, the digits
\* and ffb are each separated by a line break, and the beneficiary spans one
C8_Witness ==
    /\ phase = "done"
    /\ input.kind = "sample"
    /\ MatchLit(input.text, 1, LitH2H) /\ GapHasBreak(input.text, 3)
    /\ output[1] = BRI
    /\ output[2] = Concat(<<BCA, NL, Mandiri>>)
    /\ output[3] = N9000
    /\ output[4] = N5
    /\ output[5] = Delayed

=============================================================================
